---- MODULE Spec2Model ----
(***************************************************************************)
(* Model of neurallog/language/language.py: the term and clause algebra    *)
(* (terms, predicates, atoms, literals, clauses, term types) and the       *)
(* structural functions over it.                                           *)
(*                                                                         *)
(* Python strings are sequences of character codes, Python tuples are      *)
(* sequences, Python objects are records carrying their class in `cls`.    *)
(* A call that raises is a record [ok |-> FALSE, exc |-> ...].             *)
(***************************************************************************)
EXTENDS Integers, Sequences, FiniteSets, TLC

VARIABLES call, obj, nset

vars == <<call, obj, nset>>

(***************************************************************************)
(* Bounds of the model.                                                    *)
(***************************************************************************)
MaxArity == 2
MaxLen == 2
MaxSets == 2
MaxItems == 2
MaxBody == 2
MaxOccurrences == 3

(***************************************************************************)
(* Characters and strings.                                                 *)
(***************************************************************************)
Chr == [A |-> 65, X |-> 88, Y |-> 89, a |-> 97, b |-> 98, e |-> 101,
        p |-> 112, q |-> 113, t |-> 116, y |-> 121, z |-> 122,
        us |-> 95, sq |-> 39, dq |-> 34, d0 |-> 48, d1 |-> 49,
        lb |-> 123, rb |-> 125, minus |-> 45,
        lsq |-> 91, rsq |-> 93, comma |-> 44, sp |-> 32]

isupper(c) == c \in 65..90
islower(c) == c \in 97..122
isdigit(c) == c \in 48..57

RECURSIVE Decimal(_)
\* str(n) of a natural number
Decimal(n) == IF n < 10 THEN <<Chr.d0 + n>>
              ELSE Decimal(n \div 10) \o <<Chr.d0 + (n % 10)>>

\* str(n) of an integer
IntStr(n) == IF n < 0 THEN <<Chr.minus>> \o Decimal(-n) ELSE Decimal(n)

\* "X{}".format(i)
XName(i) == <<Chr.X>> \o IntStr(i)

\* payloads of Term.value: a str or a number
StrV(s) == [t |-> "str", s |-> s, n |-> 0]
NumV(n) == [t |-> "num", s |-> <<>>, n |-> n]

\* a character of the class [a-zA-Z0-9_-]
PlaceHolderChar(c) ==
    isupper(c) \/ islower(c) \/ isdigit(c) \/ c = Chr.us \/ c = Chr.minus

\* PLACE_HOLDER.search(s) is not None
PLACE_HOLDER(s) ==
    \E i \in 1..Len(s) : \E j \in (i + 2)..Len(s) :
        /\ s[i] = Chr.lb
        /\ s[j] = Chr.rb
        /\ \A k \in (i + 1)..(j - 1) : PlaceHolderChar(s[k])

\* s[1:-1]
Strip(s) == IF Len(s) <= 2 THEN <<>> ELSE SubSeq(s, 2, Len(s) - 1)

(***************************************************************************)
(* Terms.                                                                  *)
(***************************************************************************)
Constant(value) == [cls |-> "Constant", value |-> StrV(value)]
Variable(value) == [cls |-> "Variable", value |-> StrV(value)]
Quote(value) == [cls |-> "Quote", value |-> StrV(Strip(value)),
                 is_template_ |-> PLACE_HOLDER(value), quote |-> value[1]]
Number(value) == [cls |-> "Number", value |-> NumV(value)]

RECURSIVE Join(_)
\* "".join(parts)
Join(parts) == IF parts = <<>> THEN <<>> ELSE Head(parts) \o Join(Tail(parts))

TemplateTerm(parts) == [cls |-> "TemplateTerm", value |-> StrV(Join(parts)),
                        parts |-> parts]

\* str(term)
TermStr(term) ==
    CASE term.cls = "Quote" -> <<term.quote>> \o term.value.s \o <<term.quote>>
      [] term.cls = "Number" -> IntStr(term.value.n)
      [] OTHER -> term.value.s

RECURSIVE JoinComma(_)
\* ", ".join(map(str, items))
JoinComma(items) ==
    IF items = <<>> THEN <<>>
    ELSE IF Len(items) = 1 THEN TermStr(items[1])
    ELSE TermStr(items[1]) \o <<Chr.comma, Chr.sp>> \o JoinComma(Tail(items))

ListTerms(terms) ==
    [cls |-> "ListTerms",
     value |-> StrV(<<Chr.lsq>> \o JoinComma(terms) \o <<Chr.rsq>>),
     items |-> terms]

\* the name of the metaclass: Variable.__class__.__name__ is "type"
MetaClassName == <<Chr.t, Chr.y, Chr.p, Chr.e>>

\* Term.key / Variable.key
TermKey(term) == IF term.cls = "Variable"
                 THEN <<StrV(MetaClassName), term.value>>
                 ELSE <<term.value>>

\* equality of two payloads (a str never equals a number)
ValueEq(v, w) == v.t = w.t /\ v.s = w.s /\ v.n = w.n

\* equality of two tuples of payloads
TupleEq(k1, k2) ==
    /\ Len(k1) = Len(k2)
    /\ \A i \in 1..Len(k1) : ValueEq(k1[i], k2[i])

\* Term.__eq__ between two terms
TermEq(x, y) == TupleEq(TermKey(x), TermKey(y))

RECURSIVE is_template(_)
\* Term.is_template and its overrides
is_template(term) ==
    CASE term.cls = "Quote" -> term.is_template_
      [] term.cls = "TemplateTerm" -> TRUE
      [] term.cls = "ListTerms" ->
            \E i \in 1..Len(term.items) : is_template(term.items[i])
      [] OTHER -> FALSE

\* Term.is_constant and its overrides
is_constant(term) ==
    CASE term.cls = "Constant" -> TRUE
      [] term.cls = "Variable" -> FALSE
      [] term.cls = "Quote" -> ~term.is_template_
      [] term.cls = "Number" -> TRUE
      [] term.cls = "TemplateTerm" -> FALSE
      [] term.cls = "ListTerms" -> TRUE
      [] OTHER -> FALSE

(***************************************************************************)
(* Results of calls.                                                       *)
(***************************************************************************)
Ok(value) == [ok |-> TRUE, value |-> value]
Raise(exc) == [ok |-> FALSE, exc |-> exc]
TermMalformedException == Raise("TermMalformedException")
IndexError == Raise("IndexError")
AtomMalformedException(expected, found) ==
    [ok |-> FALSE, exc |-> "AtomMalformedException",
     expected |-> expected, found |-> found]

(***************************************************************************)
(* Term construction.                                                      *)
(***************************************************************************)
\* string[0] and string[-1] raise IndexError on the empty string
get_term_from_string(string) ==
    IF string = <<>> THEN IndexError
    ELSE IF isupper(string[1]) THEN Ok(Variable(string))
    ELSE IF islower(string[1]) \/ string[1] = Chr.us THEN Ok(Constant(string))
    ELSE IF /\ string[1] = string[Len(string)]
            /\ (string[1] = Chr.sq \/ string[1] = Chr.dq)
         THEN Ok(Quote(string))
    ELSE TermMalformedException

\* raw arguments of a constructor: a Term, a str, a number, or anything else
ArgTerm(term) == [kind |-> "Term", term |-> term]
ArgStr(s) == [kind |-> "str", s |-> s]
ArgNum(n) == [kind |-> "num", n |-> n]
ArgOther == [kind |-> "other"]

\* one iteration of the loop of build_terms
build_term(argument) ==
    CASE argument.kind = "Term" -> Ok(argument.term)
      [] argument.kind = "str" -> get_term_from_string(argument.s)
      [] argument.kind = "num" -> Ok(Number(argument.n))
      [] OTHER -> TermMalformedException

RECURSIVE build_terms(_)
\* the first argument that raises ends the loop
build_terms(arguments) ==
    IF arguments = <<>> THEN Ok(<<>>)
    ELSE LET first == build_term(Head(arguments))
         IN IF ~first.ok THEN first
            ELSE LET rest == build_terms(Tail(arguments))
                 IN IF ~rest.ok THEN rest
                    ELSE Ok(<<first.value>> \o rest.value)

(***************************************************************************)
(* Predicates.                                                             *)
(***************************************************************************)
Predicate(name, arity) ==
    [cls |-> "Predicate", name |-> name, arity |-> arity]

TemplatePredicate(parts, arity) ==
    [cls |-> "TemplatePredicate", name |-> Join(parts), arity |-> arity,
     parts |-> parts]

\* the class hierarchy: the proper subclasses of each class
Subclasses(c) ==
    CASE c = "Predicate" -> {"TemplatePredicate"}
      [] c = "Atom" -> {"Literal"}
      [] c = "Term" -> {"Constant", "Variable", "Quote", "Number",
                        "TemplateTerm", "ListTerms"}
      [] c = "Clause" -> {"Atom", "Literal", "AtomClause", "HornClause"}
      [] OTHER -> {}

isinstance(x, c) == x.cls = c \/ x.cls \in Subclasses(c)

\* Predicate.key
PredicateKey(p) == <<p.name, p.arity>>

\* Predicate.__eq__(self, other)
Predicate__eq__(self, other) ==
    IF isinstance(other, self.cls)
    THEN PredicateKey(self) = PredicateKey(other)
    ELSE FALSE

\* p == q: the reflected method of the right operand runs first when its
\* class is a proper subclass of the left operand's class
PredicateEq(p, q) ==
    IF q.cls \in Subclasses(p.cls) THEN Predicate__eq__(q, p)
    ELSE Predicate__eq__(p, q)

\* p != q: object.__ne__ inverts __eq__, with the same dispatch
PredicateNe(p, q) == ~PredicateEq(p, q)

(***************************************************************************)
(* Clauses.                                                                *)
(***************************************************************************)
\* the default weight 1.0, in tenths
DefaultWeight == 10

\* Python's None
None == [cls |-> "NoneType"]

\* a clause without provenance: provenance=None
NoProvenance == None

FileDefinedClause(start_line, filename) ==
    [cls |-> "FileDefinedClause", start_line |-> start_line,
     filename |-> filename]

\* a bare predicate name handed to Atom
PredName(s) == [cls |-> "str", s |-> s]

\* the atom Atom.__init__ leaves behind once no exception was raised
AtomObject(predicate, args, weight, provenance) ==
    LET terms == build_terms(args)
    IN IF ~terms.ok THEN terms
       ELSE Ok([cls |-> "Atom",
                predicate |-> IF isinstance(predicate, "Predicate")
                              THEN predicate
                              ELSE Predicate(predicate.s, Len(args)),
                weight |-> weight, terms |-> terms.value,
                provenance |-> provenance])

\* mutant: the arity check compares with < instead of !=
Mutant_AtomInit(predicate, args, weight, provenance) ==
    IF isinstance(predicate, "Predicate") /\ predicate.arity < Len(args)
    THEN AtomMalformedException(predicate.arity, Len(args))
    ELSE AtomObject(predicate, args, weight, provenance)

\* Atom.__init__
AtomInit(predicate, args, weight, provenance) ==
    IF isinstance(predicate, "Predicate") /\ predicate.arity # Len(args)
    THEN AtomMalformedException(predicate.arity, Len(args))
    ELSE AtomObject(predicate, args, weight, provenance)

\* *atom.terms: the terms of an atom as constructor arguments
TermArgs(terms) == [i \in 1..Len(terms) |-> ArgTerm(terms[i])]

\* Literal.__init__
LiteralInit(atom, negated) ==
    LET super == AtomInit(atom.predicate, TermArgs(atom.terms),
                          DefaultWeight, atom.provenance)
    IN IF ~super.ok THEN super
       ELSE Ok([cls |-> "Literal", predicate |-> super.value.predicate,
                weight |-> super.value.weight, terms |-> super.value.terms,
                provenance |-> super.value.provenance, negated |-> negated])

\* AtomClause.__init__
AtomClauseInit(atom) ==
    LET inner == AtomInit(atom.predicate, TermArgs(atom.terms),
                          atom.weight, NoProvenance)
    IN IF ~inner.ok THEN inner
       ELSE Ok([cls |-> "AtomClause", atom |-> inner.value,
                provenance |-> atom.provenance])

\* HornClause.__init__
HornClauseInit(head, body, provenance) ==
    Ok([cls |-> "HornClause", head |-> head, body |-> body,
        provenance |-> provenance])

\* mutant: the provenance is single-assignment
Mutant_set_provenance(self, context) ==
    IF self.provenance = NoProvenance
    THEN [self EXCEPT !.provenance = context]
    ELSE self

\* Clause.set_provenance
set_provenance(self, context) == [self EXCEPT !.provenance = context]

(***************************************************************************)
(* Keys, equality and hashing of clauses.  A key is a tuple whose elements *)
(* are numbers (weights in tenths; the bool True is the number 1.0),       *)
(* predicates and tuples of terms.                                         *)
(***************************************************************************)
KNum(n) == [t |-> "num", n |-> n]
KBool(b) == [t |-> "num", n |-> IF b THEN DefaultWeight ELSE 0]
KPred(p) == [t |-> "pred", p |-> p]
KTerms(terms) == [t |-> "terms", terms |-> terms]

\* Atom.key / Literal.key
AtomKey(atom) ==
    IF atom.cls = "Literal"
    THEN <<KBool(atom.negated), KNum(atom.weight), KPred(atom.predicate),
           KTerms(atom.terms)>>
    ELSE <<KNum(atom.weight), KPred(atom.predicate), KTerms(atom.terms)>>

RECURSIVE BodyKey(_)
\* the loop of HornClause.key: key_tuple += literal.key()
BodyKey(body) ==
    IF body = <<>> THEN <<>> ELSE AtomKey(Head(body)) \o BodyKey(Tail(body))

\* mutant: the key of a Horn clause leaves out its body
Mutant_ClauseKey(clause) ==
    CASE clause.cls = "AtomClause" -> AtomKey(clause.atom)
      [] clause.cls = "HornClause" -> AtomKey(clause.head)
      [] OTHER -> AtomKey(clause)

\* Clause.key and its overrides
ClauseKey(clause) ==
    CASE clause.cls = "AtomClause" -> AtomKey(clause.atom)
      [] clause.cls = "HornClause" ->
            AtomKey(clause.head) \o BodyKey(clause.body)
      [] OTHER -> AtomKey(clause)

\* == between two elements of a key
KeyElemEq(e, f) ==
    /\ e.t = f.t
    /\ CASE e.t = "num" -> e.n = f.n
         [] e.t = "pred" -> PredicateEq(e.p, f.p)
         [] OTHER -> /\ Len(e.terms) = Len(f.terms)
                     /\ \A i \in 1..Len(e.terms) :
                            TermEq(e.terms[i], f.terms[i])

\* == between two keys
KeyEq(k1, k2) ==
    /\ Len(k1) = Len(k2)
    /\ \A i \in 1..Len(k1) : KeyElemEq(k1[i], k2[i])

\* Clause.__eq__(self, other)
Clause__eq__(self, other) ==
    IF isinstance(other, self.cls)
    THEN KeyEq(ClauseKey(self), ClauseKey(other))
    ELSE FALSE

\* x == y on clauses, the reflected method first for a subclass on the right
ClauseEq(x, y) ==
    IF y.cls \in Subclasses(x.cls) THEN Clause__eq__(y, x)
    ELSE Clause__eq__(x, y)

\* hash of a number
HashNum(n) == n % 8191

RECURSIVE HashSeq(_, _)
\* hash of a tuple or str from the hashes of its elements, left to right
HashSeq(hs, acc) ==
    IF hs = <<>> THEN acc
    ELSE HashSeq(Tail(hs), (acc * 31 + Head(hs) + 1) % 8191)

HashStr(s) == HashSeq(s, 7)

HashTuple(hs) == HashSeq(hs, 3)

HashValue(v) == IF v.t = "str" THEN HashStr(v.s) ELSE HashNum(v.n)

\* mutant: the hash of a term also depends on its class
Mutant_TermHash(term) ==
    HashTuple(<<HashStr(IF term.cls = "Quote" THEN <<term.quote>> ELSE <<>>)>>
              \o [i \in 1..Len(TermKey(term)) |-> HashValue(TermKey(term)[i])])

\* Term.__hash__
TermHash(term) ==
    HashTuple([i \in 1..Len(TermKey(term)) |-> HashValue(TermKey(term)[i])])

\* Predicate.__hash__
PredicateHash(p) == HashTuple(<<HashStr(p.name), HashNum(p.arity)>>)

\* hash of one element of a key
KeyElemHash(e) ==
    CASE e.t = "num" -> HashNum(e.n)
      [] e.t = "pred" -> PredicateHash(e.p)
      [] OTHER -> HashTuple([i \in 1..Len(e.terms) |-> TermHash(e.terms[i])])

\* Clause.__hash__
ClauseHash(clause) ==
    HashTuple([i \in 1..Len(ClauseKey(clause)) |->
                   KeyElemHash(ClauseKey(clause)[i])])

(***************************************************************************)
(* Ordering of terms.                                                      *)
(***************************************************************************)
RECURSIVE StrLt(_, _)
\* s < t on str: the first differing character decides, a proper prefix
\* is smaller
StrLt(s, t) ==
    IF t = <<>> THEN FALSE
    ELSE IF s = <<>> THEN TRUE
    ELSE IF Head(s) # Head(t) THEN Head(s) < Head(t)
    ELSE StrLt(Tail(s), Tail(t))

RECURSIVE TupleLt(_, _)
\* k1 < k2 on tuples of str
TupleLt(k1, k2) ==
    IF k2 = <<>> THEN FALSE
    ELSE IF k1 = <<>> THEN TRUE
    ELSE IF ~ValueEq(Head(k1), Head(k2)) THEN StrLt(Head(k1).s, Head(k2).s)
    ELSE TupleLt(Tail(k1), Tail(k2))

\* Term.__lt__: (len(key),) + key compared as tuples
TermLt(x, y) ==
    \/ Len(TermKey(x)) < Len(TermKey(y))
    \/ /\ Len(TermKey(x)) = Len(TermKey(y))
       /\ TupleLt(TermKey(x), TermKey(y))

\* Term.__gt__
TermGt(x, y) == TupleLt(TermKey(y), TermKey(x))

\* Term.__ge__
TermGe(x, y) == ~TupleLt(TermKey(x), TermKey(y))

\* Term.__le__
TermLe(x, y) == ~TupleLt(TermKey(y), TermKey(x))

(***************************************************************************)
(* Term types.                                                             *)
(***************************************************************************)
\* TermType.number is True, False or None
TermType(variable, number) ==
    [cls |-> "TermType", variable |-> variable, number |-> number]

\* TermType.__eq__, also against None
TermTypeEq(t, u) == t.cls = "TermType" /\ u.cls = "TermType"
                    /\ <<t.variable, t.number>> = <<u.variable, u.number>>

\* TermType.is_compatible
is_compatible(self, other) ==
    IF self.number = "None" THEN TRUE
    ELSE IF other.number = "None" THEN TRUE
    ELSE self.number = other.number

\* a or b on True, False, None: a if a is truthy, else b
PyOr(a, b) == IF a = "True" THEN a ELSE b

\* TermType.update_type
update_type(self, other) ==
    IF ~is_compatible(self, other) THEN None
    ELSE TermType(self.variable \/ other.variable,
                  PyOr(self.number, other.number))

RECURSIVE FoldUpdateType(_, _)
\* the merge of the types of one argument position over its occurrences:
\* acc = acc.update_type(next) from left to right, stopping at None
FoldUpdateType(acc, types) ==
    IF types = <<>> \/ acc = None THEN acc
    ELSE FoldUpdateType(update_type(acc, Head(types)), Tail(types))

(***************************************************************************)
(* Structural functions on atoms.  A dict is the sequence of its items in  *)
(* insertion order.                                                        *)
(***************************************************************************)
\* mutant: the lookup never finds a key
Mutant_DictGet(d, key) == None

\* dict.get(key, None): the value stored under a key equal to `key`
DictGet(d, key) ==
    IF \E i \in 1..Len(d) : TermEq(d[i].key, key)
    THEN d[CHOOSE i \in 1..Len(d) : TermEq(d[i].key, key)].value
    ELSE None

\* mutant: every position gets the variable X0
Mutant_VariableTerms(arity) == [i \in 1..arity |-> Variable(XName(0))]

\* [Variable("X{}".format(i)) for i in range(arity)]
VariableTerms(arity) == [i \in 1..arity |-> Variable(XName(i - 1))]

\* get_variable_atom
get_variable_atom(value) ==
    LET predicate == IF isinstance(value, "Atom") THEN value.predicate
                     ELSE value
        variable_atom == AtomInit(predicate,
                                  TermArgs(VariableTerms(predicate.arity)),
                                  DefaultWeight, NoProvenance)
    IN IF ~variable_atom.ok THEN variable_atom
       ELSE IF isinstance(value, "Literal")
            THEN LiteralInit(variable_atom.value, value.negated)
            ELSE variable_atom

\* Atom.is_grounded
is_grounded(atom) == \A i \in 1..Len(atom.terms) : is_constant(atom.terms[i])

RECURSIVE SubstitutionLoop(_, _, _, _)
\* the loop of get_substitution from position i on
SubstitutionLoop(generic_atom, specific_atom, i, substitutions) ==
    IF i > generic_atom.predicate.arity
    THEN [cls |-> "dict", items |-> substitutions]
    ELSE LET generic_term == generic_atom.terms[i]
             specific_term == specific_atom.terms[i]
             substitution == DictGet(substitutions, generic_term)
         IN IF is_constant(generic_term)
               /\ ~TermEq(generic_term, specific_term)
            THEN None
            ELSE IF substitution = None
            THEN SubstitutionLoop(generic_atom, specific_atom, i + 1,
                    Append(substitutions, [key |-> generic_term,
                                           value |-> specific_term]))
            ELSE IF ~TermEq(substitution, specific_term) THEN None
            ELSE SubstitutionLoop(generic_atom, specific_atom, i + 1,
                                  substitutions)

\* get_substitution
get_substitution(generic_atom, specific_atom) ==
    IF PredicateNe(generic_atom.predicate, specific_atom.predicate) THEN None
    ELSE SubstitutionLoop(generic_atom, specific_atom, 1, <<>>)

RECURSIVE RenameLoop(_, _, _)
\* the loop of get_renamed_atom: the arguments of the renamed atom;
\* index is len(term_map)
RenameLoop(terms, term_map, out) ==
    IF terms = <<>> THEN out
    ELSE LET term == Head(terms)
         IN IF is_constant(term)
            THEN RenameLoop(Tail(terms), term_map,
                    Append(out, IF term.cls = "Quote"
                                THEN ArgTerm(Constant(term.value.s))
                                ELSE ArgTerm(term)))
            ELSE IF DictGet(term_map, term) = None
            THEN RenameLoop(Tail(terms),
                    Append(term_map, [key |-> term,
                                      value |-> StrV(XName(Len(term_map)))]),
                    Append(out, ArgStr(XName(Len(term_map)))))
            ELSE RenameLoop(Tail(terms), term_map,
                    Append(out, ArgStr(DictGet(term_map, term).s)))

\* mutant: the renamed atom keeps the weight of the atom
Mutant_get_renamed_atom(atom) ==
    AtomInit(atom.predicate, RenameLoop(atom.terms, <<>>, <<>>),
             atom.weight, NoProvenance)

\* get_renamed_atom
get_renamed_atom(atom) ==
    AtomInit(atom.predicate, RenameLoop(atom.terms, <<>>, <<>>),
             DefaultWeight, NoProvenance)

(***************************************************************************)
(* The values the operations are applied to.                               *)
(***************************************************************************)
Names == {<<Chr.p>>, <<Chr.q>>}

Arities == (-1)..MaxArity

Predicates ==
    {Predicate(n, a) : n \in Names, a \in Arities}
        \cup {TemplatePredicate(<<n>>, a) : n \in Names, a \in Arities}

Weights == {DefaultWeight, 5}

Provenances == {NoProvenance, FileDefinedClause(1, <<Chr.a>>),
                FileDefinedClause(2, <<Chr.a>>)}

\* raw constructor arguments: terms, well-formed and malformed strings,
\* a number, and an object that is none of these
ArgPool == {ArgTerm(Constant(<<Chr.a>>)), ArgTerm(Variable(<<Chr.X>>)),
            ArgStr(<<Chr.Y>>), ArgStr(<<Chr.d1>>), ArgStr(<<>>),
            ArgNum(1), ArgOther}

\* the sequences over S of length at most n
SeqsUpTo(S, n) == UNION {[1..k -> S] : k \in 0..n}

\* the characters strings are made of: a letter of each case, the
\* underscore, both quote marks, a digit and the braces
Alphabet == {Chr.A, Chr.a, Chr.us, Chr.sq, Chr.dq, Chr.d1, Chr.lb, Chr.rb}

Strings == SeqsUpTo(Alphabet, MaxLen)

\* '{a}', a quoted template
QuotedTemplate == <<Chr.sq, Chr.lb, Chr.a, Chr.rb, Chr.sq>>

\* terms with a str payload
StrTerms == {Constant(<<Chr.a>>), Constant(<<Chr.z>>), Constant(<<Chr.X>>),
             Variable(<<Chr.X>>), Variable(<<Chr.A>>),
             Quote(<<Chr.sq, Chr.a, Chr.sq>>), Quote(<<Chr.dq, Chr.a, Chr.dq>>),
             Quote(QuotedTemplate),
             TemplateTerm(<<<<Chr.lb, Chr.a>>, <<Chr.rb>>>>),
             ListTerms(<<Constant(<<Chr.a>>)>>)}

TermPool == StrTerms \cup {Number(1), Number(2)}

TermTypes == {TermType(v, n) : v \in BOOLEAN, n \in {"True", "False", "None"}}

\* the clauses that are compared: atoms, literals, atom clauses and Horn
\* clauses over one predicate name
CmpPredicates == {p \in Predicates : p.name = <<Chr.p>> /\ p.arity >= 0}

CmpTerms == {Constant(<<Chr.a>>), Quote(<<Chr.sq, Chr.a, Chr.sq>>),
             Variable(<<Chr.X>>)}

CmpAtoms ==
    {AtomInit(p, TermArgs(ts), w, NoProvenance).value :
        <<p, ts, w>> \in {x \in CmpPredicates \X SeqsUpTo(CmpTerms, MaxArity)
                                \X Weights : x[1].arity = Len(x[2])}}

CmpLiterals == {LiteralInit(a, n).value : a \in CmpAtoms, n \in BOOLEAN}

CmpHeads == {a \in CmpAtoms : a.predicate.cls = "Predicate"
                              /\ a.predicate.arity = 0}

CmpBodyLiterals == {l \in CmpLiterals : l.predicate.cls = "Predicate"
                                        /\ l.predicate.arity = 0}

CmpClauses ==
    CmpAtoms \cup CmpLiterals
        \cup {AtomClauseInit(a).value : a \in CmpAtoms}
        \cup {HornClauseInit(h, b, NoProvenance).value :
                h \in CmpHeads, b \in SeqsUpTo(CmpBodyLiterals, MaxBody)}

(***************************************************************************)
(* One call of a function on terms, predicates, clauses or term types.     *)
(***************************************************************************)
\* no clause object has been constructed
NoObject == [cls |-> "NoObject"]

Init ==
    /\ call = [op |-> "init"]
    /\ obj = NoObject
    /\ nset = 0

\* get_term_from_string(string)
GetTermFromString ==
    /\ call.op = "init"
    /\ \E string \in Strings :
        call' = [op |-> "get_term_from_string", string |-> string,
                 result |-> get_term_from_string(string)]
    /\ UNCHANGED <<obj, nset>>

\* build_terms(arguments)
BuildTerms ==
    /\ call.op = "init"
    /\ \E arguments \in SeqsUpTo(ArgPool, MaxItems) :
        call' = [op |-> "build_terms", arguments |-> arguments,
                 result |-> build_terms(arguments)]
    /\ UNCHANGED <<obj, nset>>

\* l = ListTerms(items); l.is_constant(); l.is_template()
NewListTerms ==
    /\ call.op = "init"
    /\ \E items \in SeqsUpTo(TermPool, MaxItems) :
        call' = [op |-> "ListTerms", items |-> items,
                 is_constant |-> is_constant(ListTerms(items)),
                 is_template |-> is_template(ListTerms(items))]
    /\ UNCHANGED <<obj, nset>>

\* self.update_type(other), other.update_type(self)
UpdateType ==
    /\ call.op = "init"
    /\ \E self \in TermTypes, other \in TermTypes :
        call' = [op |-> "update_type", self |-> self, other |-> other,
                 compatible |-> is_compatible(self, other),
                 result |-> update_type(self, other),
                 reflected |-> update_type(other, self)]
    /\ UNCHANGED <<obj, nset>>

\* the types of one argument position merged over its occurrences
MergeTypes ==
    /\ call.op = "init"
    /\ \E types \in SeqsUpTo(TermTypes, MaxOccurrences) :
        /\ types # <<>>
        /\ call' = [op |-> "merge_types", types |-> types,
                    result |-> FoldUpdateType(Head(types), Tail(types))]
    /\ UNCHANGED <<obj, nset>>

\* x == y, x != y, hash(x), hash(y) on terms
CompareTerms ==
    /\ call.op = "init"
    /\ \E x \in TermPool, y \in TermPool :
        call' = [op |-> "compare_terms", x |-> x, y |-> y,
                 eq |-> TermEq(x, y), ne |-> ~TermEq(x, y),
                 hash_x |-> TermHash(x), hash_y |-> TermHash(y)]
    /\ UNCHANGED <<obj, nset>>

\* x < y, x > y, x <= y, x >= y, y < x, x == y on terms with a str payload
OrderTerms ==
    /\ call.op = "init"
    /\ \E x \in StrTerms, y \in StrTerms :
        call' = [op |-> "order_terms", x |-> x, y |-> y,
                 lt |-> TermLt(x, y), gt |-> TermGt(x, y),
                 le |-> TermLe(x, y), ge |-> TermGe(x, y),
                 lt_swapped |-> TermLt(y, x), eq |-> TermEq(x, y)]
    /\ UNCHANGED <<obj, nset>>

\* x == y, y == x, hash(x), hash(y) on predicates
ComparePredicates ==
    /\ call.op = "init"
    /\ \E x \in Predicates, y \in Predicates :
        call' = [op |-> "compare_predicates", x |-> x, y |-> y,
                 eq |-> PredicateEq(x, y), eq_swapped |-> PredicateEq(y, x),
                 hash_x |-> PredicateHash(x), hash_y |-> PredicateHash(y)]
    /\ UNCHANGED <<obj, nset>>

\* x == y, hash(x), hash(y) on clauses
CompareClauses ==
    /\ call.op = "init"
    /\ \E x \in CmpClauses, y \in CmpClauses :
        call' = [op |-> "compare_clauses", x |-> x, y |-> y,
                 eq |-> ClauseEq(x, y),
                 hash_x |-> ClauseHash(x), hash_y |-> ClauseHash(y)]
    /\ UNCHANGED <<obj, nset>>

Next ==
    \/ GetTermFromString
    \/ BuildTerms
    \/ NewListTerms
    \/ UpdateType
    \/ MergeTypes
    \/ CompareTerms
    \/ OrderTerms
    \/ ComparePredicates
    \/ CompareClauses

Spec == Init /\ [][Next]_vars

(***************************************************************************)
(* One call of a structural function on atoms.                             *)
(***************************************************************************)
\* the predicates of the atoms: p and q, and p as a template
AtomPredicates ==
    {p \in Predicates : p.arity >= 0 /\ (p.cls = "Predicate"
                                         \/ p.name = <<Chr.p>>)}

AtomTerms == {Constant(<<Chr.a>>), Constant(<<Chr.b>>),
              Quote(<<Chr.sq, Chr.a, Chr.sq>>),
              Variable(<<Chr.X>>), Variable(<<Chr.Y>>)}

RenamePredicates == {p \in AtomPredicates : p.name = <<Chr.p>>}

RenameTerms == {Constant(<<Chr.a>>), Quote(<<Chr.sq, Chr.a, Chr.sq>>),
                Variable(<<Chr.X>>), Variable(<<Chr.Y>>),
                TemplateTerm(<<<<Chr.lb, Chr.a>>, <<Chr.rb>>>>)}

\* Atom(predicate, *terms, weight=weight)
MkAtom(predicate, terms, weight) ==
    AtomInit(predicate, TermArgs(terms), weight, NoProvenance).value

\* get_variable_atom(value) of a predicate, an atom or a literal
GetVariableAtom ==
    /\ call.op = "init"
    /\ \E p \in Predicates, negated \in BOOLEAN,
          kind \in {"Predicate", "Atom", "Literal"} :
        /\ kind # "Predicate" => p.arity >= 0
        /\ LET atom == MkAtom(p, [i \in 1..p.arity |-> Constant(<<Chr.a>>)],
                              DefaultWeight)
               value == CASE kind = "Predicate" -> p
                          [] kind = "Atom" -> atom
                          [] OTHER -> LiteralInit(atom, negated).value
           IN call' = [op |-> "get_variable_atom", value |-> value,
                       result |-> get_variable_atom(value)]
    /\ UNCHANGED <<obj, nset>>

\* get_substitution(generic_atom, specific_atom)
GetSubstitution ==
    /\ call.op = "init"
    /\ \E gp \in AtomPredicates, sp \in AtomPredicates :
        \E gts \in [1..gp.arity -> AtomTerms],
           sts \in [1..sp.arity -> AtomTerms] :
            LET generic_atom == MkAtom(gp, gts, DefaultWeight)
                specific_atom == MkAtom(sp, sts, DefaultWeight)
            IN call' = [op |-> "get_substitution", from |-> "Atom",
                        generic_atom |-> generic_atom,
                        specific_atom |-> specific_atom,
                        result |-> get_substitution(generic_atom,
                                                    specific_atom)]
    /\ UNCHANGED <<obj, nset>>

\* get_substitution(get_variable_atom(specific_atom), specific_atom)
GetSubstitutionOfVariableAtom ==
    /\ call.op = "init"
    /\ \E sp \in AtomPredicates, negated \in BOOLEAN, literal \in BOOLEAN :
        \E sts \in [1..sp.arity -> AtomTerms] :
            LET atom == MkAtom(sp, sts, DefaultWeight)
                specific_atom == IF literal
                                 THEN LiteralInit(atom, negated).value
                                 ELSE atom
                generic_atom == get_variable_atom(specific_atom).value
            IN call' = [op |-> "get_substitution",
                        from |-> "get_variable_atom",
                        generic_atom |-> generic_atom,
                        specific_atom |-> specific_atom,
                        result |-> get_substitution(generic_atom,
                                                    specific_atom)]
    /\ UNCHANGED <<obj, nset>>

\* terms of templates: a template term, the constant with the same text,
\* another constant and a variable
TemplateTerms == {TemplateTerm(<<<<Chr.lb, Chr.a>>, <<Chr.rb>>>>),
                  Constant(<<Chr.lb, Chr.a, Chr.rb>>),
                  Constant(<<Chr.b>>), Variable(<<Chr.X>>)}

\* get_substitution(generic_atom, specific_atom) on two atoms of one
\* predicate whose terms come from a template clause
GetSubstitutionOfTemplates ==
    /\ call.op = "init"
    /\ \E gp \in RenamePredicates :
        \E gts \in [1..gp.arity -> TemplateTerms],
           sts \in [1..gp.arity -> TemplateTerms] :
            LET generic_atom == MkAtom(gp, gts, DefaultWeight)
                specific_atom == MkAtom(gp, sts, DefaultWeight)
            IN call' = [op |-> "get_substitution", from |-> "Atom",
                        generic_atom |-> generic_atom,
                        specific_atom |-> specific_atom,
                        result |-> get_substitution(generic_atom,
                                                    specific_atom)]
    /\ UNCHANGED <<obj, nset>>

\* get_renamed_atom(a1), get_renamed_atom(a2),
\* get_renamed_atom(get_renamed_atom(a1))
GetRenamedAtom ==
    /\ call.op = "init"
    /\ \E p1 \in RenamePredicates, p2 \in RenamePredicates,
          weight \in Weights :
        \E ts1 \in [1..p1.arity -> RenameTerms],
           ts2 \in [1..p2.arity -> RenameTerms] :
            LET a1 == MkAtom(p1, ts1, weight)
                a2 == MkAtom(p2, ts2, DefaultWeight)
                renamed1 == get_renamed_atom(a1).value
            IN call' = [op |-> "get_renamed_atom", a1 |-> a1, a2 |-> a2,
                        renamed1 |-> renamed1,
                        renamed2 |-> get_renamed_atom(a2).value,
                        twice |-> get_renamed_atom(renamed1).value]
    /\ UNCHANGED <<obj, nset>>

NextAtoms ==
    \/ GetVariableAtom
    \/ GetSubstitution
    \/ GetSubstitutionOfVariableAtom
    \/ GetSubstitutionOfTemplates
    \/ GetRenamedAtom

SpecAtoms == Init /\ [][NextAtoms]_vars

(***************************************************************************)
(* The life of one clause object: construction, wrapping, provenance.      *)
(***************************************************************************)
InitClause ==
    /\ call = [op |-> "init"]
    /\ obj = NoObject
    /\ nset = 0

\* obj = Atom(predicate, *args, weight=weight, provenance=provenance),
\* the first step of every run
NewAtom ==
    /\ call.op = "init"
    /\ \E predicate \in Predicates \cup {PredName(n) : n \in Names},
          args \in SeqsUpTo(ArgPool, MaxArity + 1),
          weight \in Weights, provenance \in Provenances :
         LET result == AtomInit(predicate, args, weight, provenance)
         IN /\ call' = [op |-> "Atom", predicate |-> predicate,
                        args |-> args, result |-> result]
            /\ obj' = IF result.ok THEN result.value ELSE NoObject
            /\ nset' = 0

\* obj = Literal(obj, negated=negated)
NewLiteral ==
    /\ isinstance(obj, "Atom")
    /\ \E negated \in BOOLEAN :
        LET result == LiteralInit(obj, negated)
        IN /\ call' = [op |-> "Literal", negated |-> negated,
                       ok |-> result.ok]
           /\ obj' = IF result.ok THEN result.value ELSE NoObject
           /\ nset' = 0

\* obj = AtomClause(obj)
NewAtomClause ==
    /\ isinstance(obj, "Atom")
    /\ LET result == AtomClauseInit(obj)
       IN /\ call' = [op |-> "AtomClause", ok |-> result.ok]
          /\ obj' = IF result.ok THEN result.value ELSE NoObject
          /\ nset' = 0

\* obj = HornClause(obj, *body, provenance=provenance), the body made of
\* literals of the head
NewHornClause ==
    /\ obj.cls = "Atom"
    /\ \E negs \in SeqsUpTo(BOOLEAN, 1), provenance \in Provenances :
        LET body == [i \in 1..Len(negs) |-> LiteralInit(obj, negs[i]).value]
            result == HornClauseInit(obj, body, provenance)
        IN /\ call' = [op |-> "HornClause", ok |-> result.ok]
           /\ obj' = result.value
           /\ nset' = 0

\* obj.set_provenance(context)
SetProvenance ==
    /\ isinstance(obj, "Clause")
    /\ nset < MaxSets
    /\ \E context \in Provenances :
        /\ call' = [op |-> "set_provenance", context |-> context,
                    previous |-> obj.provenance]
        /\ obj' = set_provenance(obj, context)
        /\ nset' = nset + 1

NextClause ==
    \/ NewAtom
    \/ NewLiteral
    \/ NewAtomClause
    \/ NewHornClause
    \/ SetProvenance

SpecClause == InitClause /\ [][NextClause]_vars

(***************************************************************************)
(* C1: Atom(p, args) with a Predicate p of arity n and k well-formed       *)
(* arguments succeeds iff k = n and otherwise raises                       *)
(* AtomMalformedException(n, k); built from a bare name the arity is k;    *)
(* every Atom, Literal and AtomClause has len(terms) = predicate.arity.    *)
(***************************************************************************)
\* an argument build_terms accepts, by the lexical rules of the language
WellFormedArg(arg) ==
    \/ arg.kind \in {"Term", "num"}
    \/ /\ arg.kind = "str"
       /\ arg.s # <<>>
       /\ \/ arg.s[1] \in 65..90
          \/ arg.s[1] \in 97..122
          \/ arg.s[1] = 95
          \/ arg.s[1] \in {34, 39} /\ arg.s[Len(arg.s)] = arg.s[1]

WellFormedArgs(args) == \A i \in 1..Len(args) : WellFormedArg(args[i])

ArityHolds(atom) == Len(atom.terms) = atom.predicate.arity

C1_AtomArity ==
    /\ (call.op = "Atom" /\ WellFormedArgs(call.args)) =>
        LET k == Len(call.args)
        IN IF call.predicate.cls = "str"
           THEN /\ call.result.ok
                /\ call.result.value.predicate.arity = k
                /\ call.result.value.predicate.name = call.predicate.s
           ELSE /\ call.result.ok <=> k = call.predicate.arity
                /\ ~call.result.ok =>
                     /\ call.result.exc = "AtomMalformedException"
                     /\ call.result.expected = call.predicate.arity
                     /\ call.result.found = k
    /\ obj.cls \in {"Atom", "Literal"} => ArityHolds(obj)
    /\ obj.cls = "AtomClause" => ArityHolds(obj.atom)
    /\ obj.cls = "HornClause" =>
        /\ ArityHolds(obj.head)
        /\ \A i \in 1..Len(obj.body) : ArityHolds(obj.body[i])

C1_Witness ==
    /\ call.op = "Atom"
    /\ call.predicate.cls = "Predicate"
    /\ WellFormedArgs(call.args)
    /\ Len(call.args) = 1
    /\ call.predicate.arity = 2
    /\ ~call.result.ok

(***************************************************************************)
(* C7: provenance is single-assignment: once set_provenance has assigned   *)
(* a provenance, no later set_provenance call changes it; every other      *)
(* field of the clause is unchanged by set_provenance.                     *)
(***************************************************************************)
OtherFieldsUnchanged == [obj' EXCEPT !.provenance = obj.provenance] = obj

C4_UpdateTypeCommutes ==
    call.op = "update_type" =>
        /\ call.compatible => TermTypeEq(call.result, call.reflected)
        /\ (call.compatible /\ call.self = call.other) =>
                TermTypeEq(call.result, call.self)
        /\ {call.self.number, call.other.number} = {"True", "False"} =>
                call.result = None

(***************************************************************************)
(* C5: for terms, predicates and clauses, x == y implies                   *)
(* hash(x) == hash(y); a Variable never equals the Constant of the same    *)
(* name, in either order.                                                  *)
(***************************************************************************)
C5_EqualImpliesSameHash ==
    /\ call.op \in {"compare_terms", "compare_predicates", "compare_clauses"}
        => (call.eq => call.hash_x = call.hash_y)
    /\ (/\ call.op = "compare_terms"
        /\ {call.x.cls, call.y.cls} = {"Variable", "Constant"}
        /\ call.x.value = call.y.value)
        => (~call.eq /\ call.ne)

\* two different objects that are equal: a quoted and a bare constant
C5_Witness ==
    /\ call.op = "compare_terms"
    /\ call.x.cls = "Quote"
    /\ call.y.cls = "Constant"
    /\ call.eq
    /\ call.hash_x = call.hash_y

(***************************************************************************)
(* C6: two predicates are equal iff name and arity match, also a plain     *)
(* Predicate against a TemplatePredicate, and in both argument orders.     *)
(***************************************************************************)
C6_PredicateEqIffNameArity ==
    call.op = "compare_predicates" =>
        /\ call.eq <=> call.eq_swapped
        /\ call.eq <=> (call.x.name = call.y.name
                        /\ call.x.arity = call.y.arity)

(***************************************************************************)
(* C8: ListTerms(items).is_constant() holds iff no element is a template,  *)
(* so is_constant() and is_template() are never both true.                 *)
(***************************************************************************)
C8_ListConstantIffNoTemplate ==
    call.op = "ListTerms" =>
        /\ call.is_constant <=>
                ~(\E i \in 1..Len(call.items) : is_template(call.items[i]))
        /\ ~(call.is_constant /\ call.is_template)

(***************************************************************************)
(* C9: on Constants and Variables, a < b iff (len(key(a)), key(a)) is      *)
(* less than (len(key(b)), key(b)); a > b iff b < a; a <= b iff a < b or   *)
(* a == b; a >= b iff a > b or a == b; exactly one of a < b, a == b,       *)
(* a > b holds.                                                            *)
(***************************************************************************)
C9_OneOrder ==
    (/\ call.op = "order_terms"
     /\ call.x.cls \in {"Constant", "Variable"}
     /\ call.y.cls \in {"Constant", "Variable"}) =>
        /\ call.lt <=>
            \/ Len(TermKey(call.x)) < Len(TermKey(call.y))
            \/ /\ Len(TermKey(call.x)) = Len(TermKey(call.y))
               /\ TupleLt(TermKey(call.x), TermKey(call.y))
        /\ call.gt <=> call.lt_swapped
        /\ call.le <=> (call.lt \/ call.eq)
        /\ call.ge <=> (call.gt \/ call.eq)
        /\ Cardinality({i \in 1..3 : <<call.lt, call.eq, call.gt>>[i]}) = 1

(***************************************************************************)
(* C10: get_term_from_string returns a Variable for an uppercase first     *)
(* character, a Constant for a lowercase one or '_', a Quote when first    *)
(* and last character are the same quote mark, and raises                  *)
(* TermMalformedException in every other case, the empty string included;  *)
(* build_terms raises TermMalformedException for an argument that is not   *)
(* a Term, a string or a number.                                           *)
(***************************************************************************)
C10_ClassifyOrMalformed ==
    /\ call.op = "get_term_from_string" =>
        LET string == call.string
            first == string[1]
        IN  IF string # <<>> /\ first \in 65..90
            THEN call.result.ok /\ call.result.value.cls = "Variable"
            ELSE IF string # <<>> /\ (first \in 97..122 \/ first = 95)
            THEN call.result.ok /\ call.result.value.cls = "Constant"
            ELSE IF /\ string # <<>>
                    /\ first \in {34, 39}
                    /\ string[Len(string)] = first
            THEN call.result.ok /\ call.result.value.cls = "Quote"
            ELSE ~call.result.ok
                 /\ call.result.exc = "TermMalformedException"
    /\ (/\ call.op = "build_terms"
        /\ \E i \in 1..Len(call.arguments) :
                call.arguments[i].kind = "other"
                /\ \A j \in 1..(i - 1) :
                       call.arguments[j].kind \in {"Term", "num"})
        => (~call.result.ok /\ call.result.exc = "TermMalformedException")

(***************************************************************************)
(* C2: get_substitution(g, s) is None whenever g.predicate != s.predicate  *)
(* (different name or different arity), and is not None whenever g is      *)
(* get_variable_atom of s and s is ground.                                 *)
(***************************************************************************)
C2_SubstitutionOfVariableAtom ==
    call.op = "get_substitution" =>
        LET g == call.generic_atom
            s == call.specific_atom
        IN /\ (g.predicate.name # s.predicate.name
               \/ g.predicate.arity # s.predicate.arity) => call.result = None
           /\ PredicateNe(g.predicate, s.predicate) => call.result = None
           /\ (call.from = "get_variable_atom" /\ is_grounded(s))
                => call.result # None

C2_Witness ==
    /\ call.op = "get_substitution"
    /\ call.from = "get_variable_atom"
    /\ call.specific_atom.predicate.arity = 2
    /\ is_grounded(call.specific_atom)
    /\ call.specific_atom.terms[1] # call.specific_atom.terms[2]
    /\ call.result # None
    /\ Len(call.result.items) = 2

(***************************************************************************)
(* C3: get_renamed_atom(get_renamed_atom(a)) == get_renamed_atom(a), and   *)
(* two atoms with the same predicate, the same constants at the same       *)
(* positions and the same sharing of variables (one's variables are a      *)
(* bijective renaming of the other's) have equal renamed atoms.            *)
(***************************************************************************)
\* a2 is a1 with its non-constant terms renamed one to one
SameUpToVariableNames(a1, a2) ==
    /\ PredicateEq(a1.predicate, a2.predicate)
    /\ Len(a1.terms) = Len(a2.terms)
    /\ \A i \in 1..Len(a1.terms) :
        /\ is_constant(a1.terms[i]) <=> is_constant(a2.terms[i])
        /\ is_constant(a1.terms[i]) => TermEq(a1.terms[i], a2.terms[i])
    /\ \A i \in 1..Len(a1.terms) : \A j \in 1..Len(a1.terms) :
        (~is_constant(a1.terms[i]) /\ ~is_constant(a1.terms[j])) =>
            (TermEq(a1.terms[i], a1.terms[j])
                <=> TermEq(a2.terms[i], a2.terms[j]))

C3_RenameCanonical ==
    call.op = "get_renamed_atom" =>
        /\ ClauseEq(call.twice, call.renamed1)
        /\ SameUpToVariableNames(call.a1, call.a2)
                => ClauseEq(call.renamed1, call.renamed2)

\* p(X, X) and p(Y, Y) with different weights are renamed to one atom
C3_Witness ==
    /\ call.op = "get_renamed_atom"
    /\ Len(call.a1.terms) = 2
    /\ Len(call.a2.terms) = 2
    /\ call.a1.terms[1].cls = "Variable"
    /\ call.a1.terms[1] = call.a1.terms[2]
    /\ call.a2.terms[1].cls = "Variable"
    /\ call.a1.terms[1] # call.a2.terms[1]
    /\ call.a1.weight # call.a2.weight
    /\ SameUpToVariableNames(call.a1, call.a2)
    /\ ClauseEq(call.renamed1, call.renamed2)
    /\ ~ClauseEq(call.a1, call.a2)

(***************************************************************************)
(* C11: for atoms g, s with equal predicates, get_substitution(g, s) is    *)
(* None iff some constant g.terms[i] differs from s.terms[i], or two       *)
(* positions i < j hold the same non-constant term of g and                *)
(* s.terms[i] != s.terms[j]; otherwise the result sub has                  *)
(* sub[g.terms[i]] == s.terms[i] at every position i.                      *)
(***************************************************************************)
\* a constant of g differs from the term of s at its position
ConstantMismatch(g, s) ==
    \E i \in 1..Len(g.terms) :
        is_constant(g.terms[i]) /\ ~TermEq(g.terms[i], s.terms[i])

\* a repeated non-constant term of g meets two different terms of s
BindingConflict(g, s) ==
    \E i \in 1..Len(g.terms) : \E j \in (i + 1)..Len(g.terms) :
        /\ ~is_constant(g.terms[i])
        /\ ~is_constant(g.terms[j])
        /\ TermEq(g.terms[i], g.terms[j])
        /\ ~TermEq(s.terms[i], s.terms[j])

\* sub[term] == value
Binds(sub, term, value) ==
    /\ \E k \in 1..Len(sub.items) : TermEq(sub.items[k].key, term)
    /\ \A k \in 1..Len(sub.items) :
        TermEq(sub.items[k].key, term) => TermEq(sub.items[k].value, value)

C11_NoneIffConflict ==
    (/\ call.op = "get_substitution"
     /\ PredicateEq(call.generic_atom.predicate,
                    call.specific_atom.predicate)) =>
        LET g == call.generic_atom
            s == call.specific_atom
        IN /\ call.result = None <=>
                (ConstantMismatch(g, s) \/ BindingConflict(g, s))
           /\ call.result # None =>
                \A i \in 1..Len(g.terms) :
                    Binds(call.result, g.terms[i], s.terms[i])

(***************************************************************************)
(* C12: every key of a returned substitution is a non-constant term of     *)
(* generic_atom (its constant terms are compared, never bound), and no     *)
(* term of specific_atom is bound unless it is also a non-constant term    *)
(* of generic_atom.                                                        *)
(***************************************************************************)
\* term occurs in atom as a non-constant term
NonConstantTermOf(atom, term) ==
    \E i \in 1..Len(atom.terms) :
        atom.terms[i] = term /\ ~is_constant(atom.terms[i])

C12_OnlyNonConstantsBound ==
    (call.op = "get_substitution" /\ call.result # None) =>
        \A k \in 1..Len(call.result.items) :
            LET key == call.result.items[k].key
            IN /\ ~is_constant(key)
               /\ NonConstantTermOf(call.generic_atom, key)
               /\ \A i \in 1..Len(call.specific_atom.terms) :
                    call.specific_atom.terms[i] = key =>
                        NonConstantTermOf(call.generic_atom, key)

(***************************************************************************)
(* C13: folding update_type from left to right over the types of one       *)
(* argument position yields None whenever one type has number True and     *)
(* another number False, however many unknown numbers lie between them;    *)
(* otherwise it yields the OR of the variable flags and the known number,  *)
(* if any type has one.                                                    *)
(***************************************************************************)
NumbersOf(types) == {types[i].number : i \in 1..Len(types)}

C13_FoldDetectsConflict ==
    call.op = "merge_types" =>
        IF {"True", "False"} \subseteq NumbersOf(call.types)
        THEN call.result = None
        ELSE /\ call.result # None
             /\ call.result.variable <=>
                    \E i \in 1..Len(call.types) : call.types[i].variable
             /\ \A n \in NumbersOf(call.types) \ {"None"} :
                    call.result.number = n
             /\ NumbersOf(call.types) = {"None"} =>
                    call.result.number = "None"

(***************************************************************************)
(* C14: get_renamed_atom(a) has a's predicate and as many terms; every     *)
(* constant term stays at its position (a constant Quote as the Constant   *)
(* of its unquoted text, equal to it); every non-constant term becomes     *)
(* Variable "Xk", k counting the distinct non-constant terms in            *)
(* first-occurrence order from 0: two positions get the same replacement   *)
(* iff they held equal non-constant terms, and the names used are exactly  *)
(* X0..X(m-1).                                                             *)
(***************************************************************************)
NonConstantPositions(terms) == {i \in 1..Len(terms) : ~is_constant(terms[i])}

\* i is the first position of its non-constant term
IsFirstOccurrence(terms, i) ==
    /\ i \in NonConstantPositions(terms)
    /\ \A j \in NonConstantPositions(terms) :
        j < i => ~TermEq(terms[j], terms[i])

\* the number of distinct non-constant terms first seen before the term at i
OccurrenceRank(terms, i) ==
    Cardinality({j \in 1..Len(terms) :
        /\ IsFirstOccurrence(terms, j)
        /\ ~TermEq(terms[j], terms[i])
        /\ \E l \in j..i : TermEq(terms[l], terms[i])
                           /\ IsFirstOccurrence(terms, l)})

PositionalVariable(k) == Variable(<<Chr.X>> \o Decimal(k))

RenamedAs(a, r) ==
    /\ r.predicate = a.predicate
    /\ Len(r.terms) = Len(a.terms)
    /\ \A i \in 1..Len(a.terms) :
        IF is_constant(a.terms[i])
        THEN /\ TermEq(r.terms[i], a.terms[i])
             /\ r.terms[i] = IF a.terms[i].cls = "Quote"
                             THEN Constant(a.terms[i].value.s)
                             ELSE a.terms[i]
        ELSE r.terms[i] = PositionalVariable(OccurrenceRank(a.terms, i))
    /\ \A i \in NonConstantPositions(a.terms) :
        \A j \in NonConstantPositions(a.terms) :
            r.terms[i] = r.terms[j] <=> TermEq(a.terms[i], a.terms[j])
    /\ {r.terms[i] : i \in NonConstantPositions(a.terms)}
        = {PositionalVariable(k) :
            k \in 0..(Cardinality({i \in 1..Len(a.terms) :
                        IsFirstOccurrence(a.terms, i)}) - 1)}

C14_RenamedByFirstOccurrence ==
    call.op = "get_renamed_atom" =>
        /\ RenamedAs(call.a1, call.renamed1)
        /\ RenamedAs(call.a2, call.renamed2)

\* p('a', Y) becomes p(a, X0); p(Y, Y) becomes p(X0, X0)
C14_Witness ==
    /\ call.op = "get_renamed_atom"
    /\ Len(call.a1.terms) = 2
    /\ Len(call.a2.terms) = 2
    /\ call.a1.terms[1].cls = "Quote"
    /\ call.a1.terms[2] = Variable(<<Chr.Y>>)
    /\ call.renamed1.terms = <<Constant(<<Chr.a>>), PositionalVariable(0)>>
    /\ call.a2.terms = <<Variable(<<Chr.Y>>), Variable(<<Chr.Y>>)>>
    /\ call.renamed2.terms = <<PositionalVariable(0), PositionalVariable(0)>>

(***************************************************************************)
(* C15: two Horn clauses are equal iff their heads have equal keys and     *)
(* their bodies have the same length with pairwise equal literals in the   *)
(* same order; a clause with body [l1, l2] differs from the one with body  *)
(* [l2, l1] when l1 != l2; a Horn clause with an empty body never equals   *)
(* the Atom or AtomClause of its head.                                     *)
(***************************************************************************)
SameHeadAndBody(c1, c2) ==
    /\ KeyEq(AtomKey(c1.head), AtomKey(c2.head))
    /\ Len(c1.body) = Len(c2.body)
    /\ \A i \in 1..Len(c1.body) : ClauseEq(c1.body[i], c2.body[i])

\* c2 is c1 with its two different body literals swapped
BodySwapped(c1, c2) ==
    /\ c1.cls = "HornClause"
    /\ c2.cls = "HornClause"
    /\ c1.head = c2.head
    /\ Len(c1.body) = 2
    /\ c2.body = <<c1.body[2], c1.body[1]>>
    /\ ~ClauseEq(c1.body[1], c1.body[2])

\* c is the Atom or the AtomClause of the head of the body-less h
FactOfHead(h, c) ==
    /\ h.cls = "HornClause"
    /\ h.body = <<>>
    /\ \/ c.cls = "Atom" /\ c = h.head
       \/ c.cls = "AtomClause" /\ c = AtomClauseInit(h.head).value

C15_HornIdentityOrdered ==
    call.op = "compare_clauses" =>
        /\ (call.x.cls = "HornClause" /\ call.y.cls = "HornClause") =>
                (call.eq <=> SameHeadAndBody(call.x, call.y))
        /\ BodySwapped(call.x, call.y) => ~call.eq
        /\ (FactOfHead(call.x, call.y) \/ FactOfHead(call.y, call.x))
                => ~call.eq

C15_Witness ==
    /\ call.op = "compare_clauses"
    /\ BodySwapped(call.x, call.y)
    /\ ~call.eq
    /\ call.hash_x # call.hash_y

====
